---------------------------- MODULE Spec2Model ----------------------------
(***************************************************************************)
(* The endless-runner gameplay loop of src/components/game.tsx (the        *)
(* monolithic Game component) as a state machine.                          *)
(*                                                                         *)
(* Numbers.  The program computes with IEEE doubles; the model computes    *)
(* in fixed point with Unit ticks per world unit, the resolution of the    *)
(* smallest constant of the program (the speed increase, 0.0001).  Every   *)
(* sum and comparison of the program is then exact in the model; the only  *)
(* product, the lane smoothing x += (target - x) * 0.1, is truncated to a  *)
(* tick.                                                                   *)
(*                                                                         *)
(* The module also models the hook useGameLogic of                         *)
(* src/components/game/game-ui.tsx, the same loop split into functions.    *)
(* No component of the repository calls it: its caller is the environment  *)
(* (SpecLogic).                                                            *)
(*                                                                         *)
(* React.  A state setter called from an animation-frame callback takes    *)
(* effect at the next render, which the scheduler runs some time after the *)
(* callback returns; the closures created by the previous render           *)
(* (gameLoop, handleKeyDown) stay in use until that render's effects have  *)
(* run.  The model keeps the latest state (gameState, playerPosition,      *)
(* isJumping) apart from the values the last render saw (rendered).  A     *)
(* render caused by a click or a key press is flushed synchronously at the *)
(* end of the event; one caused by a frame is a step of its own, Render,   *)
(* which may come before or after the next animation frame.                *)
(***************************************************************************)
EXTENDS Integers, Sequences, FiniteSets, TLC

VARIABLES
    gameState,       \* useState: [isPlaying, isGameOver, score, speed], latest value
    playerPosition,  \* useState: target lane -1, 0, 1, latest value
    isJumping,       \* useState: latest value
    rendered,        \* what the last render saw: the closures and the visible screen
    player,          \* playerRef.current.position: [x, y, z]
    obstacles,       \* obstaclesRef.current: sequence of [id, x, z]
    ground,          \* groundRef.current: the z of each of the 20 segments
    speedRef,        \* speedRef.current
    scoreRef,        \* scoreRef.current
    isPlayingRef,    \* isPlayingRef.current
    animationRef,    \* animationRef.current is non-null
    pendingFrames,   \* the browser's pending animation-frame callbacks
    nextId,          \* identity of the next obstacle object created
    frames,          \* frames run so far (bounded by MaxFrames)
    keys,            \* key events delivered so far (bounded by MaxKeys)
    spawned,         \* obstacles spawned so far (bounded by MaxSpawns)
    staleFrames,     \* frames run since a render became due (bounded by MaxStale)
    flushSync,       \* a click or key handler set state: React renders before anything else
    lastKey,         \* history: the last key delivered and the lane it found
    jump,            \* history: the height at which the last jump was accepted,
                     \* and the frames run since as an ascent (isJumping in the closure)
    logic,           \* the refs of one useGameLogic() and the objects its caller passes
    removed,         \* history: obstacles gameLoop has removed since the last startGame
    controls         \* useGameControls: its arguments, the last event and what it dispatched

vars == <<gameState, playerPosition, isJumping, rendered, player, obstacles,
          ground, speedRef, scoreRef, isPlayingRef, animationRef,
          pendingFrames, nextId, frames, keys, spawned, staleFrames,
          flushSync, lastKey, jump, logic, removed, controls>>

----------------------------------------------------------------------------
(* Bounds of the model. *)

MaxFrames == 7
MaxKeys == 1
MaxSpawns == 1
MaxStale == 1
MaxLogicFrames == 16
MaxLogicInputs == 1
MaxLogicSpawns == 1
MaxLogicStarts == 2

----------------------------------------------------------------------------
(* Program constants, in ticks. *)

Unit == 10000

baseSpeed == 2000
maxSpeed == 5000
speedIncrease == 1
jumpHeight == 40000
jumpSpeed == 3000
fallSpeed == 2000
collisionDistance == 15000
jumpSafeHeight == 20000
laneSpacing == 20000
rearThreshold == -200000
wrapSpan == 2000000
spawnZ == 1000000
groundSegments == 20
segmentLength == 100000
pointsPerObstacle == 10
perfectRunBonus == 50
perfectRunLength == 10

Lanes == {-laneSpacing, 0, laneSpacing}

Max(a, b) == IF a >= b THEN a ELSE b
Min(a, b) == IF a <= b THEN a ELSE b
Abs(a) == IF a >= 0 THEN a ELSE -a

(* d * 0.1, truncated toward zero to a tick. *)
Tenth(d) == IF d >= 0 THEN d \div 10 ELSE -((-d) \div 10)

RemoveNone(seq, i) == seq

RemoveAt(seq, i) == SubSeq(seq, 1, i - 1) \o SubSeq(seq, i + 1, Len(seq))

----------------------------------------------------------------------------
(* The state as one record, so that a handler and the render it causes     *)
(* compose as functions.                                                   *)

Cur ==
    [gameState |-> gameState, playerPosition |-> playerPosition,
     isJumping |-> isJumping, rendered |-> rendered, player |-> player,
     obstacles |-> obstacles, ground |-> ground, speedRef |-> speedRef,
     scoreRef |-> scoreRef, isPlayingRef |-> isPlayingRef,
     animationRef |-> animationRef, pendingFrames |-> pendingFrames,
     nextId |-> nextId, frames |-> frames, keys |-> keys,
     spawned |-> spawned, staleFrames |-> staleFrames,
     flushSync |-> flushSync, lastKey |-> lastKey, jump |-> jump,
     removed |-> removed]

Becomes(s) ==
    /\ gameState' = s.gameState
    /\ playerPosition' = s.playerPosition
    /\ isJumping' = s.isJumping
    /\ rendered' = s.rendered
    /\ player' = s.player
    /\ obstacles' = s.obstacles
    /\ ground' = s.ground
    /\ speedRef' = s.speedRef
    /\ scoreRef' = s.scoreRef
    /\ isPlayingRef' = s.isPlayingRef
    /\ animationRef' = s.animationRef
    /\ pendingFrames' = s.pendingFrames
    /\ nextId' = s.nextId
    /\ frames' = s.frames
    /\ keys' = s.keys
    /\ spawned' = s.spawned
    /\ staleFrames' = s.staleFrames
    /\ flushSync' = s.flushSync
    /\ lastKey' = s.lastKey
    /\ jump' = s.jump
    /\ removed' = s.removed
    /\ UNCHANGED <<logic, controls>>

----------------------------------------------------------------------------
(* The browser's animation-frame queue.  A pending callback is the closure *)
(* it will run (the playerPosition and isJumping its gameLoop captured)    *)
(* and whether its id is the one animationRef.current holds.               *)

requestAnimationFrame(s, c) ==
    [s EXCEPT
        !.animationRef = TRUE,
        !.pendingFrames =
            {[f EXCEPT !.current = FALSE] : f \in s.pendingFrames}
                \cup {[closure |-> c, current |-> TRUE]}]

cancelNothing(s) == s

(* if (animationRef.current) cancelAnimationFrame(animationRef.current) *)
cancelAnimationFrame(s) ==
    IF s.animationRef
    THEN [s EXCEPT !.pendingFrames = {f \in s.pendingFrames : ~f.current}]
    ELSE s

----------------------------------------------------------------------------
(* gameLoop, step by step. *)

(* Move world towards player: every ground segment, wrapped behind -20. *)
moveGroundTwoSpans(g, speed) ==
    [i \in 1..Len(g) |->
        LET z == g[i] - speed
        IN  IF z < rearThreshold THEN z + 2 * wrapSpan ELSE z]

moveGroundWrapsAtThreshold(g, speed) ==
    [i \in 1..Len(g) |->
        LET z == g[i] - speed
        IN  IF z <= rearThreshold THEN z + wrapSpan ELSE z]

moveGround(g, speed) ==
    [i \in 1..Len(g) |->
        LET z == g[i] - speed
        IN  IF z < rearThreshold THEN z + wrapSpan ELSE z]

(* The collision test of one obstacle against the player. *)
collides(p, o) ==
    /\ Abs(p.x - o.x) < collisionDistance
    /\ Abs(p.z - o.z) < collisionDistance
    /\ p.y < jumpSafeHeight

(* obstaclesRef.current.forEach((obstacle, index) => ...): the callback    *)
(* runs for index 0, 1, ... while the index is inside the array as it is   *)
(* at that moment.  The callback's return on a collision ends that call    *)
(* only; splice(index, 1) shifts the rest of the array down under the      *)
(* running index.  i is the 1-based index, a the state the loop updates.   *)
RECURSIVE forEachObstacle(_, _, _, _)
forEachObstacle(i, a, p, speed) ==
    IF i > Len(a.obstacles) THEN a
    ELSE
        LET o == [a.obstacles[i] EXCEPT !.z = @ - speed]
            moved == [a EXCEPT !.obstacles[i] = o]
        IN  IF collides(p, o)
            THEN forEachObstacle(i + 1,
                    [moved EXCEPT
                        !.gameState = [@ EXCEPT !.isPlaying = FALSE,
                                                !.isGameOver = TRUE],
                        !.isPlayingRef = FALSE],
                    p, speed)
            ELSE IF o.z < rearThreshold
            THEN forEachObstacle(i + 1,
                    [moved EXCEPT
                        !.obstacles = RemoveAt(moved.obstacles, i),
                        !.removed = @ + 1,
                        !.scoreRef = @ + pointsPerObstacle,
                        !.gameState = [@ EXCEPT !.score =
                                          moved.scoreRef + pointsPerObstacle]],
                    p, speed)
            ELSE forEachObstacle(i + 1, moved, p, speed)

(* The random draws of one frame: no spawn, or a spawn in one of the lanes. *)
Draws == {<<>>} \cup {<<l>> : l \in Lanes}

(* if (Math.random() < 0.02) createObstacle(100).  age and v0 are history: *)
(* the frames run since the obstacle was created and the speed of the      *)
(* frame that created it.                                                  *)
createObstacle(s, draw) ==
    IF draw = <<>> THEN s
    ELSE [s EXCEPT
            !.obstacles = Append(@, [id |-> s.nextId, x |-> draw[1], z |-> spawnZ,
                                     age |-> 0, v0 |-> s.speedRef]),
            !.nextId = @ + 1,
            !.spawned = @ + 1]

(* Update player position smoothly. *)
smoothX(x, lane) == x + Tenth(lane * laneSpacing - x)

(* Handle jumping: the new height. *)
jumpY(y, jumping) ==
    IF jumping THEN Max(0, y + jumpSpeed) ELSE Max(0, y - fallSpeed)

(* Handle jumping: if (isJumping && y >= 4) setIsJumping(false) *)
apexReached(y, jumping) == jumping /\ y >= jumpHeight

rampSpeedNoCap(speed) == speed + speedIncrease

(* Increase speed over time. *)
rampSpeed(speed) == Min(speed + speedIncrease, maxSpeed)

(* History: one more frame has run for every obstacle still in the array. *)
aged(s) ==
    [s EXCEPT !.obstacles =
        [i \in 1..Len(s.obstacles) |-> [s.obstacles[i] EXCEPT !.age = @ + 1]]]

gameLoopUnguarded(s, c, draw) ==
    LET a == forEachObstacle(1, s, s.player, s.speedRef)
        b == createObstacle(aged(a), draw)
        y == jumpY(s.player.y, c.isJumping)
        d == [b EXCEPT
                !.ground = moveGround(s.ground, s.speedRef),
                !.player = [@ EXCEPT !.x = smoothX(@, c.playerPosition),
                                     !.y = y],
                !.isJumping = IF apexReached(y, c.isJumping) THEN FALSE ELSE @,
                !.speedRef = rampSpeed(s.speedRef),
                !.gameState = [@ EXCEPT !.speed = rampSpeed(s.speedRef)],
                !.frames = @ + 1,
                !.jump = IF c.isJumping THEN [@ EXCEPT !.ascents = @ + 1] ELSE @]
    IN  IF d.isPlayingRef THEN requestAnimationFrame(d, c) ELSE d

(* One call of gameLoop, as the closure c (the playerPosition and          *)
(* isJumping of the render that created it), with the frame's random draw. *)
gameLoop(s, c, draw) ==
    IF ~s.isPlayingRef THEN s
    ELSE
        LET a == forEachObstacle(1, s, s.player, s.speedRef)
            b == createObstacle(aged(a), draw)
            y == jumpY(s.player.y, c.isJumping)
            d == [b EXCEPT
                    !.ground = moveGround(s.ground, s.speedRef),
                    !.player = [@ EXCEPT !.x = smoothX(@, c.playerPosition),
                                         !.y = y],
                    !.isJumping = IF apexReached(y, c.isJumping) THEN FALSE ELSE @,
                    !.speedRef = rampSpeed(s.speedRef),
                    !.gameState = [@ EXCEPT !.speed = rampSpeed(s.speedRef)],
                    !.frames = @ + 1,
                    !.jump = IF c.isJumping THEN [@ EXCEPT !.ascents = @ + 1] ELSE @]
        IN  IF d.isPlayingRef THEN requestAnimationFrame(d, c) ELSE d

----------------------------------------------------------------------------
(* The buttons' handlers. *)

startGameKeepsGameOver(s) ==
    [s EXCEPT
        !.speedRef = baseSpeed,
        !.scoreRef = 0,
        !.isPlayingRef = TRUE,
        !.gameState = [isPlaying |-> TRUE, isGameOver |-> s.gameState.isGameOver,
                       score |-> 0, speed |-> baseSpeed],
        !.playerPosition = 0,
        !.isJumping = FALSE,
        !.obstacles = <<>>,
        !.removed = 0,
        !.player = [x |-> 0, y |-> 0, z |-> 0]]

startGameKeepsObstacles(s) ==
    [s EXCEPT
        !.speedRef = baseSpeed,
        !.scoreRef = 0,
        !.isPlayingRef = TRUE,
        !.gameState = [isPlaying |-> TRUE, isGameOver |-> FALSE,
                       score |-> 0, speed |-> baseSpeed],
        !.playerPosition = 0,
        !.isJumping = FALSE,
        !.removed = 0,
        !.player = [x |-> 0, y |-> 0, z |-> 0]]

startGameKeepsScore(s) ==
    [s EXCEPT
        !.speedRef = baseSpeed,
        !.isPlayingRef = TRUE,
        !.gameState = [isPlaying |-> TRUE, isGameOver |-> FALSE,
                       score |-> s.gameState.score, speed |-> baseSpeed],
        !.playerPosition = 0,
        !.isJumping = FALSE,
        !.obstacles = <<>>,
        !.removed = 0,
        !.player = [x |-> 0, y |-> 0, z |-> 0]]

startGame(s) ==
    [s EXCEPT
        !.speedRef = baseSpeed,
        !.scoreRef = 0,
        !.isPlayingRef = TRUE,
        !.gameState = [isPlaying |-> TRUE, isGameOver |-> FALSE,
                       score |-> 0, speed |-> baseSpeed],
        !.playerPosition = 0,
        !.isJumping = FALSE,
        !.obstacles = <<>>,
        !.removed = 0,
        !.player = [x |-> 0, y |-> 0, z |-> 0]]

resetGame(s) ==
    cancelAnimationFrame(
        [s EXCEPT !.gameState = [isPlaying |-> FALSE, isGameOver |-> FALSE,
                                 score |-> 0, speed |-> baseSpeed]])

----------------------------------------------------------------------------
(* handleKeyDown, as the closure of the last render. *)

Keys == {"ArrowLeft", "ArrowRight", "ArrowUp", "Escape"}

moveLeftWraps(lane) == IF lane = -1 THEN 1 ELSE lane - 1

moveLeft(lane) == Max(lane - 1, -1)
moveRight(lane) == Min(lane + 1, 1)

handleKeyDown(s, key) ==
    IF ~s.rendered.isPlaying THEN s
    ELSE IF key = "ArrowLeft"
    THEN [s EXCEPT !.playerPosition = moveLeft(@)]
    ELSE IF key = "ArrowRight"
    THEN [s EXCEPT !.playerPosition = moveRight(@)]
    ELSE IF key = "ArrowUp"
    THEN (IF ~s.rendered.isJumping
          THEN [s EXCEPT !.isJumping = TRUE,
                         !.jump = IF s.isJumping THEN @
                                  ELSE [startY |-> s.player.y, ascents |-> 0]]
          ELSE s)
    ELSE s

----------------------------------------------------------------------------
(* A render and its effects. *)

Seen(s) ==
    [isPlaying |-> s.gameState.isPlaying, isGameOver |-> s.gameState.isGameOver,
     playerPosition |-> s.playerPosition, isJumping |-> s.isJumping]

RenderDue(s) == s.rendered # Seen(s)

(* useEffect(..., [gameState.isPlaying, gameLoop]): gameLoop is a new      *)
(* function when playerPosition or isJumping changed.  The effect's        *)
(* cleanup runs first, then the effect with the new gameLoop.              *)
loopEffect(s, old, draw) ==
    LET new == Seen(s)
        c == [playerPosition |-> new.playerPosition, isJumping |-> new.isJumping]
    IN  IF /\ new.isPlaying = old.isPlaying
           /\ new.playerPosition = old.playerPosition
           /\ new.isJumping = old.isJumping
        THEN s
        ELSE IF new.isPlaying
        THEN gameLoop(cancelAnimationFrame(s), c, draw)
        ELSE cancelAnimationFrame(cancelAnimationFrame(s))

render(s, draw) ==
    loopEffect([s EXCEPT !.rendered = Seen(s), !.staleFrames = 0,
                         !.flushSync = FALSE],
               s.rendered, draw)

(* Whether render(s, draw) runs a frame. *)
RunsFrame(s) ==
    /\ s.gameState.isPlaying
    /\ s.isPlayingRef
    /\ \/ s.rendered.isPlaying # s.gameState.isPlaying
       \/ s.rendered.playerPosition # s.playerPosition
       \/ s.rendered.isJumping # s.isJumping

(* The draws the bounds allow where a frame may run. *)
DrawsFor(s) ==
    IF s.spawned < MaxSpawns THEN Draws ELSE {<<>>}

----------------------------------------------------------------------------
(* useGameLogic (game-ui.tsx).  l is the record of the hook's refs and of  *)
(* the objects the caller passes to gameLoop: the player mesh, the         *)
(* obstacle and ground arrays and the playerState object.  The scheduled   *)
(* callback calls gameLoop with the same objects.  gameOvers counts the    *)
(* calls of onGameOver, published is the last call of onScoreUpdate.       *)

LogicMounted ==
    [speedRef |-> baseSpeed,
     scoreRef |-> 0,
     isPlayingRef |-> FALSE,
     animationRef |-> FALSE,
     perfectRunRef |-> 0,
     pending |-> FALSE,
     player |-> [x |-> 0, y |-> 0, z |-> 0],
     obstacles |-> <<>>,
     ground |-> [i \in 1..groundSegments |-> (i - 1) * segmentLength],
     playerState |-> [position |-> 0, isJumping |-> FALSE],
     gameOvers |-> 0,
     published |-> [score |-> 0, speed |-> baseSpeed],
     nextId |-> 1,
     frames |-> 0, inputs |-> 0, spawned |-> 0, starts |-> 0]

moveWorld(l) ==
    [l EXCEPT
        !.ground = moveGround(l.ground, l.speedRef),
        !.obstacles = [i \in 1..Len(l.obstacles) |->
                          [l.obstacles[i] EXCEPT !.z = @ - l.speedRef]]]

updatePlayerMovement(l) ==
    [l EXCEPT
        !.player = [@ EXCEPT
            !.x = smoothX(@, l.playerState.position),
            !.y = IF l.playerState.isJumping
                  THEN Max(0, @ + jumpSpeed)
                  ELSE Max(0, @ - fallSpeed)]]

checkCollisions(l) ==
    \E i \in 1..Len(l.obstacles) : collides(l.player, l.obstacles[i])

(* obstaclesRef.forEach with splice(index, 1) under the running index. *)
RECURSIVE cleanupFrom(_, _)
cleanupFrom(i, l) ==
    IF i > Len(l.obstacles) THEN l
    ELSE IF l.obstacles[i].z < rearThreshold
    THEN LET run == l.perfectRunRef + 1
             score == l.scoreRef + pointsPerObstacle
                        + (IF run % perfectRunLength = 0 THEN perfectRunBonus ELSE 0)
         IN  cleanupFrom(i + 1,
                [l EXCEPT
                    !.obstacles = RemoveAt(@, i),
                    !.scoreRef = score,
                    !.perfectRunRef = run,
                    !.published = [score |-> score, speed |-> l.speedRef]])
    ELSE cleanupFrom(i + 1, l)

cleanupObstacles(l) == cleanupFrom(1, l)

updateDifficulty(l) == [l EXCEPT !.speedRef = rampSpeed(@)]

logicGameLoop(l) ==
    IF ~l.isPlayingRef THEN l
    ELSE
        LET m == [updatePlayerMovement(moveWorld(l)) EXCEPT !.frames = @ + 1]
        IN  IF checkCollisions(m)
            THEN [m EXCEPT !.isPlayingRef = FALSE, !.gameOvers = @ + 1]
            ELSE [updateDifficulty(cleanupObstacles(m)) EXCEPT
                    !.animationRef = TRUE, !.pending = TRUE]

logicStartGameKeepsRun(l) ==
    [l EXCEPT !.speedRef = baseSpeed, !.scoreRef = 0, !.isPlayingRef = TRUE]

logicStartGame(l) ==
    [l EXCEPT !.speedRef = baseSpeed, !.scoreRef = 0, !.perfectRunRef = 0,
              !.isPlayingRef = TRUE]

stopGame(l) ==
    [l EXCEPT !.isPlayingRef = FALSE,
              !.pending = IF l.animationRef THEN FALSE ELSE @]

logicResetGame(l) ==
    [stopGame(l) EXCEPT !.speedRef = baseSpeed, !.scoreRef = 0,
                        !.perfectRunRef = 0]

(* The caller of the hook leaves the Game component and the controls      *)
(* alone.                                                                  *)
GameVars ==
    <<gameState, playerPosition, isJumping, rendered, player,
      obstacles, ground, speedRef, scoreRef, isPlayingRef,
      animationRef, pendingFrames, nextId, frames, keys, spawned,
      staleFrames, flushSync, lastKey, jump, removed>>

MonolithUnchanged == UNCHANGED <<GameVars, controls>>

(* startGame(), then the first call of gameLoop. *)
LogicStart ==
    /\ ~logic.isPlayingRef
    /\ logic.frames < MaxLogicFrames
    /\ logic.starts < MaxLogicStarts
    /\ logic' = logicGameLoop([logicStartGame(logic) EXCEPT !.starts = @ + 1])
    /\ MonolithUnchanged

LogicStop ==
    /\ logic.isPlayingRef
    /\ logic' = stopGame(logic)
    /\ MonolithUnchanged

LogicReset ==
    /\ logic.starts > 0
    /\ logicResetGame(logic) # logic
    /\ logic' = logicResetGame(logic)
    /\ MonolithUnchanged

(* The browser runs the scheduled callback. *)
LogicTick ==
    /\ logic.pending
    /\ logic.frames < MaxLogicFrames
    /\ logic' = logicGameLoop([logic EXCEPT !.pending = FALSE])
    /\ MonolithUnchanged

(* The caller sets the fields of the playerState object it passed, while   *)
(* the game is played.                                                     *)
LogicInput ==
    /\ logic.isPlayingRef
    /\ logic.inputs < MaxLogicInputs
    /\ \E pos \in {-1, 0, 1}, j \in BOOLEAN :
        /\ [position |-> pos, isJumping |-> j] # logic.playerState
        /\ logic' = [logic EXCEPT
                        !.playerState = [position |-> pos, isJumping |-> j],
                        !.inputs = @ + 1]
    /\ MonolithUnchanged

(* The caller adds a row of one or two obstacles to the array it passed:   *)
(* next to the player or about to pass the rear threshold.                 *)
SpawnPositions == {collisionDistance, rearThreshold + baseSpeed}

SpawnRows ==
    {<<a>> : a \in Lanes}
        \union {<<r[1], r[2]>> : r \in {q \in Lanes \X Lanes : q[1] < q[2]}}

LogicSpawn ==
    /\ logic.isPlayingRef
    /\ logic.spawned < MaxLogicSpawns
    /\ \E row \in SpawnRows, z \in SpawnPositions :
        logic' = [logic EXCEPT
                    !.obstacles = @ \o [k \in 1..Len(row) |->
                                          [id |-> logic.nextId + k - 1,
                                           x |-> row[k], z |-> z]],
                    !.nextId = @ + Len(row),
                    !.spawned = @ + 1]
    /\ MonolithUnchanged

NextLogic ==
    LogicStart \/ LogicStop \/ LogicReset \/ LogicTick \/ LogicInput \/ LogicSpawn

----------------------------------------------------------------------------
(* useGameControls (game-controls.tsx).  An event dispatches a sequence of *)
(* actions, the callbacks of `actions` the handler calls.                  *)

CONTROL_SCHEMES ==
    [keyboard |->
        [moveLeft |-> {"ArrowLeft", "a", "A"},
         moveRight |-> {"ArrowRight", "d", "D"},
         jump |-> {"ArrowUp", " ", "w", "W"},
         pause |-> {"Escape", "p", "P"},
         restart |-> {"r", "R"}],
     alternative |->
        [moveLeft |-> {"q", "Q"},
         moveRight |-> {"e", "E"},
         jump |-> {"Space", "ArrowUp"},
         pause |-> {"Escape"},
         restart |-> {"Enter"}]]

(* TOUCH_CONFIG.zones.left.width and .right.x, in hundredths. *)
zoneLeftWidth == 33
zoneRightX == 67

(* The width of the touched element, and the offsets of a touch in it. *)
TouchWidth == 100
TouchOffsets == 0..TouchWidth

(* The keys of both schemes, and two keys of neither. *)
ControlKeys ==
    UNION {CONTROL_SCHEMES[s][a] :
              s \in DOMAIN CONTROL_SCHEMES,
              a \in {"moveLeft", "moveRight", "jump", "pause", "restart"}}
        \cup {"ArrowDown", "x"}

(* controlState, and whether actions has onPause and onRestart. *)
ControlArguments ==
    [isEnabled : BOOLEAN, scheme : DOMAIN CONTROL_SCHEMES,
     onPause : BOOLEAN, onRestart : BOOLEAN]

controlsKeyDown(arg, key) ==
    IF ~arg.isEnabled THEN <<>>
    ELSE
        LET scheme == CONTROL_SCHEMES[arg.scheme]
        IN  IF key \in scheme.moveLeft THEN <<"onMoveLeft">>
            ELSE IF key \in scheme.moveRight THEN <<"onMoveRight">>
            ELSE IF key \in scheme.jump THEN <<"onJump">>
            ELSE IF key \in scheme.pause /\ arg.onPause THEN <<"onPause">>
            ELSE IF key \in scheme.restart /\ arg.onRestart THEN <<"onRestart">>
            ELSE <<>>

(* relativeX = offset / width, compared with 0.33 and 0.67. *)
handleTouchStart(arg, offset, width) ==
    IF ~arg.isEnabled THEN <<>>
    ELSE IF 100 * offset < zoneLeftWidth * width THEN <<"onMoveLeft">>
    ELSE IF 100 * offset > zoneRightX * width THEN <<"onMoveRight">>
    ELSE <<"onJump">>

NoEvent == [kind |-> "none", key |-> "", offset |-> 0]

ControlsMounted ==
    [arg |-> [isEnabled |-> TRUE, scheme |-> "keyboard",
              onPause |-> FALSE, onRestart |-> FALSE],
     event |-> NoEvent,
     dispatched |-> <<>>]

ControlsOnly == UNCHANGED <<GameVars, logic>>

(* The parent renders the hook with other arguments. *)
ControlsRender ==
    /\ \E arg \in ControlArguments :
        /\ arg # controls.arg
        /\ controls' = [arg |-> arg, event |-> NoEvent, dispatched |-> <<>>]
    /\ ControlsOnly

ControlsKey ==
    /\ \E key \in ControlKeys :
        controls' = [controls EXCEPT
                        !.event = [kind |-> "key", key |-> key, offset |-> 0],
                        !.dispatched = controlsKeyDown(controls.arg, key)]
    /\ ControlsOnly

ControlsTouch ==
    /\ \E offset \in TouchOffsets :
        controls' = [controls EXCEPT
                        !.event = [kind |-> "touch", key |-> "", offset |-> offset],
                        !.dispatched = handleTouchStart(controls.arg, offset, TouchWidth)]
    /\ ControlsOnly

NextControls == ControlsRender \/ ControlsKey \/ ControlsTouch

----------------------------------------------------------------------------
(* The steps of the program. *)

(* A click on START GAME (start screen) or Play Again (game-over screen). *)
Start ==
    /\ ~flushSync
    /\ \/ ~rendered.isPlaying /\ ~rendered.isGameOver
       \/ rendered.isGameOver
    /\ Becomes([startGame(Cur) EXCEPT !.flushSync = TRUE])

(* A click on Main Menu (game-over screen). *)
Reset ==
    /\ ~flushSync
    /\ rendered.isGameOver
    /\ Becomes([resetGame(Cur) EXCEPT !.flushSync = TRUE])

(* A keydown event.  React renders at the end of the event when the        *)
(* handler changed state.                                                  *)
press(s, key) ==
    LET h == handleKeyDown(s, key)
    IN  [h EXCEPT
            !.keys = @ + 1,
            !.lastKey = [key |-> key, from |-> s.playerPosition],
            !.flushSync = (h # s)]

KeyDown ==
    /\ ~flushSync
    /\ keys < MaxKeys
    /\ \E key \in Keys : Becomes(press(Cur, key))

(* The browser runs a pending animation-frame callback. *)
tick(s, f, draw) ==
    gameLoop([s EXCEPT !.pendingFrames = @ \ {f},
                       !.staleFrames = IF RenderDue(s) THEN @ + 1 ELSE 0],
             f.closure, draw)

Tick ==
    /\ ~flushSync
    /\ frames < MaxFrames
    /\ RenderDue(Cur) => staleFrames < MaxStale
    /\ \E f \in pendingFrames, draw \in DrawsFor(Cur) :
        Becomes(tick(Cur, f, draw))

(* React renders the state set by a handler or a frame, and runs the       *)
(* effects.                                                                *)
Render ==
    /\ flushSync \/ RenderDue(Cur)
    /\ RunsFrame(Cur) => frames < MaxFrames
    /\ \E draw \in (IF RunsFrame(Cur) THEN DrawsFor(Cur) ELSE {<<>>}) :
        Becomes(render(Cur, draw))

Next == Start \/ Reset \/ KeyDown \/ Tick \/ Render

----------------------------------------------------------------------------
(* Initial states.  Mounted is the component after its first render and    *)
(* initializeScene.  An obstacle spawns 100 units ahead and needs more     *)
(* than 400 frames to reach the player, and a jump takes 14 frames to its  *)
(* apex, so the model also starts from sessions already under way:         *)
(* Warm(sched, script, n) is the state the program is in after START GAME  *)
(* and n frames, with the spawn draws of sched (frame number :> lane) and  *)
(* the key events of script (frame number :> key), computed by gameLoop,   *)
(* handleKeyDown and the render themselves.                                *)

Mounted ==
    [gameState |-> [isPlaying |-> FALSE, isGameOver |-> FALSE,
                    score |-> 0, speed |-> baseSpeed],
     playerPosition |-> 0,
     isJumping |-> FALSE,
     rendered |-> [isPlaying |-> FALSE, isGameOver |-> FALSE,
                   playerPosition |-> 0, isJumping |-> FALSE],
     player |-> [x |-> 0, y |-> 0, z |-> 0],
     obstacles |-> <<>>,
     ground |-> [i \in 1..groundSegments |-> (i - 1) * segmentLength],
     speedRef |-> baseSpeed,
     scoreRef |-> 0,
     isPlayingRef |-> FALSE,
     animationRef |-> FALSE,
     pendingFrames |-> {},
     nextId |-> 1,
     frames |-> 0, keys |-> 0, spawned |-> 0, staleFrames |-> 0,
     flushSync |-> FALSE,
     lastKey |-> [key |-> "", from |-> 0],
     jump |-> [startY |-> 0, ascents |-> 0],
     removed |-> 0]

DrawAt(sched, k) == IF k \in DOMAIN sched THEN <<sched[k]>> ELSE <<>>

(* Frames from..to of a session.  Frame k is the pending animation-frame   *)
(* callback or, after a key event of the script, the frame that the        *)
(* render caused by the key runs.  Every key of a script changes state.    *)
RECURSIVE Play(_, _, _, _, _)
Play(s, from, to, sched, script) ==
    IF from > to \/ s.pendingFrames = {} THEN s
    ELSE IF from = to
    THEN (IF from \in DOMAIN script
          THEN render(press(s, script[from]), DrawAt(sched, from))
          ELSE tick(s, CHOOSE f \in s.pendingFrames : TRUE, DrawAt(sched, from)))
    ELSE LET mid == (from + to) \div 2
         IN  Play(Play(s, from, mid, sched, script), mid + 1, to, sched, script)

Warm(sched, script, n) ==
    LET first == render(startGame(Mounted), DrawAt(sched, 1))
    IN  [Play([first EXCEPT !.flushSync = FALSE], 2, n, sched, script)
            EXCEPT !.frames = 0, !.spawned = 0, !.keys = 0]

EmptySchedule == [k \in {} |-> 0]
NoKeys == [k \in {} |-> ""]

(* Three obstacles: the first passes the rear threshold in frame 531, the  *)
(* frame in which the third reaches the player, in the player's lane.      *)
WarmUp == 525
PassingSchedule == (1 :> laneSpacing) @@ (50 :> -laneSpacing) @@ (105 :> 0)

(* No obstacle, the speed a few frames below its maximum. *)
CapWarmUp == 2997

(* No obstacle, the player in the left lane and two frames below the apex  *)
(* of a jump started on the ground.                                        *)
JumpWarmUp == 14
JumpScript == (2 :> "ArrowLeft") @@ (3 :> "ArrowUp")

(* The speed at its maximum since frame 3000, and two obstacles spawned    *)
(* since, in frames 3001 and 3002, about to pass the rear threshold.       *)
CruiseWarmUp == 3240
CruiseSchedule == (3001 :> laneSpacing) @@ (3002 :> -laneSpacing)

(* Two obstacles, next to each other in the array: the first passes the    *)
(* rear threshold in frame 531, the frame in which the second comes within *)
(* reach of the player, in the player's lane.                              *)
AdjacentSchedule == (1 :> laneSpacing) @@ (105 :> 0)

(* A second session after a game over: Play Again is clicked on the        *)
(* game-over screen that React rendered after state s, and n frames are    *)
(* played.                                                                 *)
Again(s, sched, script, n) ==
    LET over == render(s, <<>>)
        first == render(startGame(over), DrawAt(sched, 1))
    IN  [Play([first EXCEPT !.flushSync = FALSE], 2, n, sched, script)
            EXCEPT !.frames = 0, !.spawned = 0, !.keys = 0]

(* A session that ends in frame 536 with a collision, and a second session *)
(* a few frames before the ground has scrolled by 200 in all: a segment    *)
(* comes to lie at the rear threshold in frame 360 of the second session.  *)
CrashFrame == 536
CrashSchedule == (111 :> 0)
AgainWarmUp == 356

InitialStates ==
    {Mounted,
     Again(Warm(CrashSchedule, NoKeys, CrashFrame),
           EmptySchedule, NoKeys, AgainWarmUp),
     Warm(PassingSchedule, NoKeys, WarmUp),
     Warm(AdjacentSchedule, NoKeys, WarmUp),
     Warm(EmptySchedule, NoKeys, CapWarmUp),
     Warm(EmptySchedule, JumpScript, JumpWarmUp),
     Warm(CruiseSchedule, NoKeys, CruiseWarmUp)}

(* The Game component is in state s. *)
Is(s) ==
    /\ gameState = s.gameState
    /\ playerPosition = s.playerPosition
    /\ isJumping = s.isJumping
    /\ rendered = s.rendered
    /\ player = s.player
    /\ obstacles = s.obstacles
    /\ ground = s.ground
    /\ speedRef = s.speedRef
    /\ scoreRef = s.scoreRef
    /\ isPlayingRef = s.isPlayingRef
    /\ animationRef = s.animationRef
    /\ pendingFrames = s.pendingFrames
    /\ nextId = s.nextId
    /\ frames = s.frames
    /\ keys = s.keys
    /\ spawned = s.spawned
    /\ staleFrames = s.staleFrames
    /\ flushSync = s.flushSync
    /\ lastKey = s.lastKey
    /\ jump = s.jump
    /\ removed = s.removed

Init ==
    /\ \E s \in InitialStates : Is(s)
    /\ logic = LogicMounted
    /\ controls = ControlsMounted

Spec == Init /\ [][Next]_vars

(* useGameLogic under its caller, next to a Game component left as it was  *)
(* mounted.                                                                *)
InitLogic == Is(Mounted) /\ logic = LogicMounted /\ controls = ControlsMounted

SpecLogic == InitLogic /\ [][NextLogic]_vars

(* useGameControls under its parent and the browser's events. *)
SpecControls == InitLogic /\ [][NextControls]_vars

(* A session at full speed in which the browser keeps delivering frames    *)
(* and React keeps rendering: LiveFrames frames, obstacles spawned in the  *)
(* first SpawnWindow of them, no key.                                      *)
LiveFrames == 250
SpawnWindow == 1

LiveDraws(s) ==
    IF s.spawned < MaxSpawns /\ s.frames < SpawnWindow THEN Draws ELSE {<<>>}

LiveTick ==
    /\ ~flushSync
    /\ frames < LiveFrames
    /\ RenderDue(Cur) => staleFrames < MaxStale
    /\ \E f \in pendingFrames, draw \in LiveDraws(Cur) :
        \E s \in {tick(Cur, f, draw)} : Becomes(s)

LiveRender ==
    /\ flushSync \/ RenderDue(Cur)
    /\ RunsFrame(Cur) => frames < LiveFrames
    /\ \E draw \in (IF RunsFrame(Cur) THEN LiveDraws(Cur) ELSE {<<>>}) :
        \E s \in {render(Cur, draw)} : Becomes(s)

InitLive ==
    /\ Is(Warm(CruiseSchedule, NoKeys, CruiseWarmUp))
    /\ logic = LogicMounted
    /\ controls = ControlsMounted

NextLive == Start \/ Reset \/ LiveTick \/ LiveRender

SpecLive ==
    InitLive /\ [][NextLive]_vars /\ WF_vars(LiveTick) /\ WF_vars(LiveRender)

(* useGameLogic under a caller that passes an array of obstacles lined up  *)
(* in pairs behind the player, gap apart, and adds none.                   *)
QueueLength == 12

Queue(gap) ==
    [j \in 1..QueueLength |->
        [id |-> j, x |-> laneSpacing,
         z |-> rearThreshold + gap * ((j + 1) \div 2)]]

QueueGaps == {baseSpeed, 2 * baseSpeed}

InitCleanup ==
    /\ Is(Mounted)
    /\ \E gap \in QueueGaps :
          logic = [LogicMounted EXCEPT !.obstacles = Queue(gap),
                                       !.nextId = QueueLength + 1]
    /\ controls = ControlsMounted

NextCleanup == LogicStart \/ LogicStop \/ LogicReset \/ LogicTick

SpecCleanup == InitCleanup /\ [][NextCleanup]_vars

----------------------------------------------------------------------------
(* Vocabulary of the claims. *)

Phase(gs) ==
    IF gs.isPlaying THEN "Playing"
    ELSE IF gs.isGameOver THEN "GameOver"
    ELSE "Idle"

(* A step in which a frame ran. *)
FrameRan == frames' = frames + 1

(* A step in which a frame detected a collision: only the collision branch *)
(* of gameLoop clears isPlayingRef.                                        *)
CollisionFrame == isPlayingRef /\ ~isPlayingRef'

(* A step in which startGame ran: the phase becomes Playing. *)
Started == ~gameState.isPlaying /\ gameState'.isPlaying

ObstacleIds(obs) == {obs[i].id : i \in 1..Len(obs)}

----------------------------------------------------------------------------
(* C1: when a frame detects a collision the session becomes GameOver and   *)
(* the steps that follow the collision check do not run in that frame: the *)
(* player is not moved and no obstacle is spawned.                         *)
C1_CollisionExitsEarly ==
    [][CollisionFrame =>
          /\ Phase(gameState') = "GameOver"
          /\ player' = player
          /\ nextId' = nextId]_vars

(* C2: a frame that detects a collision ends in GameOver with the score    *)
(* it started with.                                                        *)
C2_CollisionKeepsScore ==
    [][CollisionFrame =>
          /\ Phase(gameState') = "GameOver"
          /\ gameState'.score = gameState.score
          /\ scoreRef' = scoreRef]_vars

(* C1 and C2 are reached: a frame has detected a collision. *)
CollisionSeen == Phase(gameState) = "GameOver" /\ ~isPlayingRef

----------------------------------------------------------------------------
(* C3: the phase starts as Idle; isPlaying and isGameOver are never both   *)
(* true; a step changes the phase only along Idle -> Playing,              *)
(* Playing -> GameOver, GameOver -> Playing, GameOver -> Idle or           *)
(* Playing -> Idle (so GameOver is never entered from Idle).               *)
PhaseSteps ==
    {<<"Idle", "Playing">>, <<"Playing", "GameOver">>, <<"GameOver", "Playing">>,
     <<"GameOver", "Idle">>, <<"Playing", "Idle">>}

C3_PhaseTransitions ==
    /\ Phase(Mounted.gameState) = "Idle"
    /\ [](~(gameState.isPlaying /\ gameState.isGameOver))
    /\ [][\/ Phase(gameState') = Phase(gameState)
          \/ <<Phase(gameState), Phase(gameState')>> \in PhaseSteps]_vars

(* Idle again after a session that ended in GameOver: every kind of        *)
(* transition the component makes has been taken.                          *)
C3_Witness ==
    /\ Phase(gameState) = "Idle"
    /\ animationRef
    /\ ~flushSync

----------------------------------------------------------------------------
(* C4: right after startGame, before the render it causes and so before    *)
(* any frame, score is 0, speed is baseSpeed, the lane is 0, the player is *)
(* at x = 0, y = 0 and not jumping and there is no obstacle; startGame     *)
(* leaves every ground segment where it was.                               *)
JustStarted == gameState.isPlaying /\ ~rendered.isPlaying

C4_StartResets ==
    /\ [](JustStarted =>
            /\ gameState.score = 0
            /\ scoreRef = 0
            /\ gameState.speed = baseSpeed
            /\ speedRef = baseSpeed
            /\ playerPosition = 0
            /\ player.x = 0
            /\ player.y = 0
            /\ ~isJumping
            /\ obstacles = <<>>)
    /\ [][Started => ground' = ground]_vars

(* Play Again on the game-over screen, after ground has scrolled. *)
C4_Witness ==
    /\ JustStarted
    /\ rendered.isGameOver
    /\ ground # Mounted.ground

----------------------------------------------------------------------------
(* C5: the score never decreases from one Playing state to the next, and   *)
(* it is 0 right after every step into Playing.                            *)
C5_ScoreMonotone ==
    [][/\ (gameState.isPlaying /\ gameState'.isPlaying) =>
              /\ gameState'.score >= gameState.score
              /\ scoreRef' >= scoreRef
       /\ Started => (gameState'.score = 0 /\ scoreRef' = 0)]_vars

(* Playing with points scored (an obstacle passed while the player jumped  *)
(* over another).                                                          *)
C5_Witness ==
    /\ gameState.isPlaying
    /\ gameState.score > 0

----------------------------------------------------------------------------
(* C6: the speed stays within [baseSpeed, maxSpeed]; every frame sets it   *)
(* to min(speed + speedIncrease, maxSpeed), strictly more than before      *)
(* while below maxSpeed; it decreases only in startGame (and the published *)
(* speed also in resetGame).                                               *)
WasReset == gameState.isGameOver /\ Phase(gameState') = "Idle"

C6_SpeedRamp ==
    /\ [](/\ baseSpeed <= speedRef /\ speedRef <= maxSpeed
          /\ baseSpeed <= gameState.speed /\ gameState.speed <= maxSpeed)
    /\ [][/\ FrameRan =>
                /\ speedRef' = Min(speedRef + speedIncrease, maxSpeed)
                /\ gameState'.speed = speedRef'
                /\ speedRef < maxSpeed => speedRef' > speedRef
          /\ speedRef' < speedRef => Started
          /\ gameState'.speed < gameState.speed => (Started \/ WasReset)]_vars

(* A frame has run at maxSpeed. *)
C6_Witness ==
    /\ gameState.isPlaying
    /\ speedRef = maxSpeed
    /\ frames > maxSpeed - (baseSpeed + CapWarmUp * speedIncrease)

----------------------------------------------------------------------------
----------------------------------------------------------------------------
(* C8: a jump key is a no-op while isJumping is true, and isJumping only   *)
(* becomes true with the player on the ground: no new ascent starts in the *)
(* air.                                                                    *)
C8_NoAirJump ==
    [][/\ (keys' = keys + 1 /\ lastKey'.key = "ArrowUp" /\ isJumping) =>
              isJumping' = isJumping
       /\ (~isJumping /\ isJumping') => player.y = 0]_vars

----------------------------------------------------------------------------
(* C9: the player's height is never negative and never above the capped    *)
(* apex, jumpHeight plus one ascent step; a frame that runs while not      *)
(* jumping lowers it by fallSpeed, down to 0.  Stated for the player that  *)
(* useGameLogic's updatePlayerMovement moves.                              *)
LogicFrameRan == logic'.frames = logic.frames + 1

C9_HeightBounded ==
    /\ [](/\ logic.player.y >= 0
          /\ logic.player.y <= jumpHeight + jumpSpeed)
    /\ [][(LogicFrameRan /\ ~logic.playerState.isJumping) =>
              logic'.player.y = Max(0, logic.player.y - fallSpeed)]_vars

----------------------------------------------------------------------------
(* C10: a jump accepted on the ground ends (a frame clears isJumping)      *)
(* after exactly ceil(jumpHeight / jumpSpeed) = 14 ascent frames, with the *)
(* player at or above jumpHeight; and once isJumping is false no frame     *)
(* runs as an ascent.                                                      *)
ApexFrames == (jumpHeight + jumpSpeed - 1) \div jumpSpeed

C10_JumpApex ==
    [][/\ (FrameRan /\ isJumping /\ ~isJumping' /\ jump.startY = 0) =>
              /\ jump'.ascents = ApexFrames
              /\ player'.y >= jumpHeight
       /\ (FrameRan /\ ~isJumping) => jump'.ascents = jump.ascents]_vars

----------------------------------------------------------------------------
(* C11: at constant speed and without a collision, an obstacle spawned at  *)
(* spawnZ leaves the array in the frame number                             *)
(* ceil((spawnZ - rearThreshold) / speed) after its spawn, whatever other  *)
(* obstacles there are.  The speed was constant over the obstacle's life   *)
(* when the frame that removes it runs at the speed of the frame that      *)
(* created it.                                                             *)
CeilDiv(a, b) == (a + b - 1) \div b

RemovedNow(o) ==
    /\ FrameRan
    /\ o.id \notin ObstacleIds(obstacles')

C11_RemovalFrame ==
    [][\A i \in 1..Len(obstacles) :
          (/\ RemovedNow(obstacles[i])
           /\ ~CollisionFrame
           /\ obstacles[i].v0 = speedRef) =>
              obstacles[i].age + 1
                  = CeilDiv(spawnZ - rearThreshold, speedRef)]_vars

----------------------------------------------------------------------------
(* C12: a frame takes an obstacle out of the array only when its scrolled  *)
(* position is behind the rear threshold, and adds exactly 10 to the score *)
(* for each obstacle it takes out and nothing otherwise; an obstacle that  *)
(* has left never comes back; from startGame to the next reset the score   *)
(* is 10 times the number of obstacles removed since that startGame.       *)
Leaving == {i \in 1..Len(obstacles) : obstacles[i].id \notin ObstacleIds(obstacles')}

C12_ScorePerRemoval ==
    /\ [](Phase(gameState) # "Idle" =>
            /\ scoreRef = 10 * removed
            /\ gameState.score = 10 * removed)
    /\ [][/\ FrameRan =>
                /\ \A i \in Leaving : obstacles[i].z - speedRef < rearThreshold
                /\ scoreRef' = scoreRef + 10 * Cardinality(Leaving)
                /\ removed' = removed + Cardinality(Leaving)
          /\ \A id \in 1..(nextId - 1) :
                id \notin ObstacleIds(obstacles) => id \notin ObstacleIds(obstacles')]_vars

(* Two obstacles have been removed and scored in the session being played. *)
C12_Witness ==
    /\ gameState.isPlaying
    /\ removed = 2
    /\ scoreRef = 20

----------------------------------------------------------------------------
(* C13: outside Playing, a call of the per-frame update changes nothing    *)
(* and schedules no frame, whatever closure makes the call; and no step    *)
(* that starts and ends outside Playing changes the ground, the obstacles, *)
(* the player, the score or the speed, or adds a pending frame.            *)
Closures == [playerPosition : {-1, 0, 1}, isJumping : BOOLEAN]

----------------------------------------------------------------------------
(* C14: a key delivered while the phase is not Playing leaves the lane and *)
(* isJumping unchanged, also between the collision frame and the render of *)
(* the game-over screen.                                                   *)
C14_InputOnlyWhilePlaying ==
    [][(keys' = keys + 1 /\ Phase(gameState) # "Playing") =>
          /\ playerPosition' = playerPosition
          /\ isJumping' = isJumping]_vars

----------------------------------------------------------------------------
(* C15: an event dispatches exactly the action of its key list or touch    *)
(* zone: a key of moveLeft, moveRight or jump of the active scheme only    *)
(* that action; a touch in the left third of the element move-left, in the *)
(* right third move-right, in the middle third jump; a key of no list, and *)
(* any event while the controls are disabled, nothing.                     *)
InScheme(key, action) == key \in CONTROL_SCHEMES[controls.arg.scheme][action]

C15_ControlsMapping ==
    LET e == controls.event
        out == controls.dispatched
    IN  /\ ~controls.arg.isEnabled => out = <<>>
        /\ (controls.arg.isEnabled /\ e.kind = "key") =>
              /\ InScheme(e.key, "moveLeft") => out = <<"onMoveLeft">>
              /\ InScheme(e.key, "moveRight") => out = <<"onMoveRight">>
              /\ InScheme(e.key, "jump") => out = <<"onJump">>
              /\ (\A a \in {"moveLeft", "moveRight", "jump", "pause", "restart"} :
                      ~InScheme(e.key, a)) => out = <<>>
        /\ (controls.arg.isEnabled /\ e.kind = "touch") =>
              /\ 3 * e.offset < TouchWidth => out = <<"onMoveLeft">>
              /\ 3 * e.offset > 2 * TouchWidth => out = <<"onMoveRight">>
              /\ (3 * e.offset >= TouchWidth /\ 3 * e.offset <= 2 * TouchWidth) =>
                    out = <<"onJump">>

----------------------------------------------------------------------------
(* C16: a frame moves every obstacle that is in the array when it starts   *)
(* by exactly the frame's speed, also when it removes another obstacle:    *)
(* every obstacle still in the array after the frame is speedRef nearer.   *)
C16_EveryObstacleScrolls ==
    [][FrameRan =>
          \A i \in 1..Len(obstacles), j \in 1..Len(obstacles') :
              obstacles'[j].id = obstacles[i].id =>
                  obstacles'[j].z = obstacles[i].z - speedRef]_vars

----------------------------------------------------------------------------
(* C17: a frame ends the session if and only if, after the scroll of that  *)
(* frame, some obstacle of the array is within collisionDistance of the    *)
(* player in x and in z while the player is below jumpSafeHeight: no       *)
(* obstacle goes unchecked.                                                *)
scrolled(o) == [o EXCEPT !.z = @ - speedRef]

C17_CollisionIff ==
    [][FrameRan =>
          (CollisionFrame <=>
              \E i \in 1..Len(obstacles) : collides(player, scrolled(obstacles[i])))]_vars

----------------------------------------------------------------------------
(* C18: in a frame of useGameLogic's gameLoop the collision test uses the  *)
(* obstacle positions after that frame's scroll and the player position    *)
(* before that frame's player kinematics: the frame ends the session if    *)
(* and only if some scrolled obstacle collides with the player as the      *)
(* player was when the frame began.                                        *)
logicScrolled(o) == [o EXCEPT !.z = @ - logic.speedRef]

C18_PlayerLagsScroll ==
    [][(logic.isPlayingRef /\ LogicFrameRan) =>
          (~logic'.isPlayingRef <=>
              \E i \in 1..Len(logic.obstacles) :
                  collides(logic.player, logicScrolled(logic.obstacles[i])))]_vars

----------------------------------------------------------------------------
(* C19: at the end of a frame played without a collision no obstacle of    *)
(* the array is behind the rear threshold: every obstacle behind it when   *)
(* cleanup runs is removed in that frame, also when several pass it in     *)
(* one frame.                                                              *)
C19_NoneLeftBehind ==
    [][(LogicFrameRan /\ logic'.isPlayingRef) =>
          \A i \in 1..Len(logic'.obstacles) :
              logic'.obstacles[i].z >= rearThreshold]_vars

----------------------------------------------------------------------------
(* C20: the 20 ground segments keep their spacing over all frames and      *)
(* wraps: their positions are pairwise distinct, congruent modulo the wrap *)
(* span to a grid of segment lengths, and within [-20, 190]; a frame wraps *)
(* a segment, by exactly the wrap span, if and only if its scrolled        *)
(* position is strictly below -20.                                         *)
GroundIndex == 1..groundSegments

C20_GroundSpacing ==
    /\ [](/\ Len(ground) = groundSegments
          /\ Cardinality({ground[i] : i \in GroundIndex}) = groundSegments
          /\ \A i \in GroundIndex :
                /\ (ground[i] - ground[1]) % wrapSpan = (i - 1) * segmentLength
                /\ ground[i] >= rearThreshold
                /\ ground[i] <= (groundSegments - 1) * segmentLength)
    /\ [][FrameRan =>
            \A i \in GroundIndex :
                ground'[i] = IF ground[i] - speedRef < rearThreshold
                             THEN ground[i] - speedRef + wrapSpan
                             ELSE ground[i] - speedRef]_vars

(* After wraps, a segment scrolled to exactly -20 and left there. *)
C20_Witness ==
    /\ gameState.isPlaying
    /\ \E i \in GroundIndex : ground[i] = rearThreshold
    /\ \E i \in GroundIndex : i > 1 /\ ground[i] < ground[1]

----------------------------------------------------------------------------
(* C21: in useGameLogic the score is 10*n + 50*floor(n/10), n the number   *)
(* of cleanups since the last startGame or resetGame, which the            *)
(* perfect-run counter counts: a frame adds one to the counter and 10 to   *)
(* the score for every obstacle it removes and 50 more whenever the        *)
(* counter reaches a multiple of 10; startGame and resetGame set both to   *)
(* 0, and nothing else changes them.                                       *)
LogicCleaned ==
    Cardinality(ObstacleIds(logic.obstacles) \ ObstacleIds(logic'.obstacles))

C21_PerfectRunScore ==
    /\ [](/\ logic.scoreRef = pointsPerObstacle * logic.perfectRunRef
                 + perfectRunBonus * (logic.perfectRunRef \div perfectRunLength)
          /\ logicStartGame(logic).scoreRef = 0
          /\ logicStartGame(logic).perfectRunRef = 0
          /\ logicResetGame(logic).scoreRef = 0
          /\ logicResetGame(logic).perfectRunRef = 0)
    /\ [][/\ (LogicFrameRan /\ logic.isPlayingRef) =>
                logic'.perfectRunRef = logic.perfectRunRef + LogicCleaned
          /\ (LogicFrameRan /\ ~logic.isPlayingRef) =>
                logic'.perfectRunRef = LogicCleaned
          /\ ~LogicFrameRan =>
                /\ LogicCleaned = 0
                /\ \/ logic'.perfectRunRef = logic.perfectRunRef
                      /\ logic'.scoreRef = logic.scoreRef
                   \/ logic'.perfectRunRef = 0 /\ logic'.scoreRef = 0]_vars

(* A session that has been given the bonus, after an earlier session that  *)
(* had removed obstacles.                                                  *)
C21_Witness ==
    /\ logic.starts = 2
    /\ logic.perfectRunRef >= perfectRunLength
    /\ logic.scoreRef >= pointsPerObstacle * perfectRunLength + perfectRunBonus
    /\ Len(logic.obstacles) + logic.perfectRunRef < QueueLength

----------------------------------------------------------------------------
(* C22: at most one animation-frame callback of gameLoop is pending at any *)
(* time, whatever the order of clicks, keys, frames and renders, and none  *)
(* is pending in Idle or GameOver once React has rendered that phase and   *)
(* run the effects.                                                        *)
Processed == ~flushSync /\ ~RenderDue(Cur)

C22_OneLoop ==
    /\ Cardinality(pendingFrames) <= 1
    /\ (Phase(gameState) # "Playing" /\ Processed) => pendingFrames = {}

(* Playing, the loop restarted by the effect after a key. *)
C22_Witness ==
    /\ gameState.isPlaying
    /\ Processed
    /\ frames > 1
    /\ keys > 0
    /\ lastKey.from # playerPosition
    /\ Cardinality(pendingFrames) = 1

----------------------------------------------------------------------------
(* C23: the loop guard isPlayingRef and the published gameState.isPlaying  *)
(* agree once an action has been processed: both are true after startGame, *)
(* both false after a collision, and both false after resetGame, called in *)
(* GameOver or in Playing.                                                 *)
Agree(s) == s.isPlayingRef = s.gameState.isPlaying

----------------------------------------------------------------------------
(* C24: while frames keep being delivered, every obstacle in the array of  *)
(* a Playing session eventually leaves it or the session leaves Playing,   *)
(* and an obstacle that leaves while the session goes on adds its 10       *)
(* points.                                                                 *)
LiveIds == 1..(Cardinality(DOMAIN CruiseSchedule) + MaxSpawns + 1)

C24_EveryObstacleLeaves ==
    /\ \A id \in LiveIds :
          (id \in ObstacleIds(obstacles) /\ Phase(gameState) = "Playing")
              ~> (id \notin ObstacleIds(obstacles) \/ Phase(gameState) # "Playing")
    /\ [][(FrameRan /\ isPlayingRef) =>
            scoreRef' = scoreRef + pointsPerObstacle * Cardinality(Leaving)]_vars

(* An obstacle spawned in the session has passed the player and left the   *)
(* array, the session still Playing.                                       *)
C24_Witness ==
    /\ Phase(gameState) = "Playing"
    /\ nextId > Cardinality(DOMAIN CruiseSchedule) + 1
    /\ obstacles = <<>>
    /\ removed = nextId - 1

----------------------------------------------------------------------------
(* C25: in every reachable state some ground segment lies under the        *)
(* player: a segment is segmentLength deep, centred on its position, and   *)
(* the player is at z = 0, so some position is within half a segment       *)
(* length of 0.  The same for the ground array useGameLogic moves.         *)
Under(g) == {i \in 1..Len(g) : Abs(g[i]) <= segmentLength \div 2}

C25_GroundUnderPlayer ==
    /\ Under(ground) # {}
    /\ Under(logic.ground) # {}

(* A frame has just wrapped a segment to the far end, and one segment      *)
(* alone is under the player.                                              *)
C25_Witness ==
    /\ gameState.isPlaying
    /\ frames > 0
    /\ \E i \in GroundIndex : ground[i] >= rearThreshold + wrapSpan - speedRef
    /\ Cardinality(Under(ground)) = 1

============================================================================
